---- MODULE Spec2Model ----
(***************************************************************************)
(* Duplicate combiner: subject normalisation, exact grouping, semantic     *)
(* clustering, the merge planner and the consolidation executor of app.py, *)
(* the retry wrapper around the remote API, and the run trigger of web.py. *)
(*                                                                         *)
(* Strings (item names, subjects, ids) are sequences of one-character      *)
(* strings, compared by code point as Python compares str.                 *)
(***************************************************************************)
EXTENDS Integers, Sequences, FiniteSets, TLC

VARIABLES
    \* ---- app.py: configuration and the remote board
    cfg,            \* the resolved module-level settings of app.py
    sim,            \* pairs of embedded texts with cosine >= SIM_THRESHOLD
    board,          \* the items the remote board holds, in server order
    subitems,       \* remote: parent id -> sequence of child-record names
    moved,          \* remote: ids relocated to MOVE_GROUP_ID
    archived,       \* remote: ids archived
    faults,         \* remote calls that have failed so far
    calls,          \* every remote call issued, in order
    \* ---- app.py: main()
    pc,             \* position of main()
    items,          \* fetch_all's result
    grouped_exact,  \* group_items' groups
    id_to_name,
    leftovers,      \* hybrid: the items handed to the semantic clusterer
    groups,         \* the candidate groups to process
    gi,             \* index of the candidate group being processed
    existing,       \* the parent's existing child names (snapshot)
    pending,        \* <<cid, nm>> pairs still needing a child record
    cs,             \* create_subitems: its locals
    loc,            \* main(): represented_ids, the chunk offset, the counters
    run_summary,
    \* ---- app.py: gql_with_retry
    rt,
    \* ---- web.py: run trigger
    web

vars == <<cfg, sim, board, subitems, moved, archived, faults, calls, pc, items,
          grouped_exact, id_to_name, leftovers, groups, gi, existing, pending, cs,
          loc, run_summary, rt, web>>

\* What main() computes before its loop, and what its loop works on.
planVars == <<items, grouped_exact, id_to_name, leftovers, groups>>
loopVars == <<gi, existing, pending, cs, loc, run_summary>>
remoteVars == <<subitems, moved, archived, faults, calls>>

-----------------------------------------------------------------------------
(* Characters and strings *)

\* The characters the model uses, in code point order.
Ascii ==
    << " ", "(", ")", "-",
       "0", "1", "2", "3", "4", "5", "6", "7", "8", "9", ":",
       "A", "B", "C", "D", "E", "F", "G", "H", "I", "J", "K", "L", "M",
       "N", "O", "P", "Q", "R", "S", "T", "U", "V", "W", "X", "Y", "Z",
       "[", "]",
       "a", "b", "c", "d", "e", "f", "g", "h", "i", "j", "k", "l", "m",
       "n", "o", "p", "q", "r", "s", "t", "u", "v", "w", "x", "y", "z",
       "{", "|", "}" >>

Chars == {Ascii[i] : i \in 1..Len(Ascii)}

OrdMap == [c \in Chars |-> CHOOSE i \in 1..Len(Ascii) : Ascii[i] = c]

Ord(c) == OrdMap[c]

IsSpace(c) == c = " "

UpperChars == {c \in Chars : Ord(c) >= Ord("A") /\ Ord(c) <= Ord("Z")}

LowerMap == [c \in UpperChars |-> Ascii[Ord(c) + (Ord("a") - Ord("A"))]]

IsUpper(c) == c \in UpperChars

Lower(c) == IF IsUpper(c) THEN LowerMap[c] ELSE c

LowerStr(s) == [i \in 1..Len(s) |-> Lower(s[i])]

\* Python's str <: by code point at the first difference, a proper prefix
\* first.
StrLess(a, b) ==
    LET n == IF Len(a) < Len(b) THEN Len(a) ELSE Len(b)
    IN  IF \A i \in 1..n : a[i] = b[i] THEN Len(a) < Len(b)
        ELSE LET d == CHOOSE i \in 1..n : a[i] /= b[i] /\ \A j \in 1..(i - 1) : a[j] = b[j]
             IN  Ord(a[d]) < Ord(b[d])

\* s without the longest suffix of characters of `drop`.
RStripOf(s, drop) ==
    IF \A i \in 1..Len(s) : s[i] \in drop THEN <<>>
    ELSE SubSeq(s, 1, CHOOSE i \in 1..Len(s) :
                         s[i] \notin drop /\ \A j \in (i + 1)..Len(s) : s[j] \in drop)

LStrip(s) ==
    IF \A i \in 1..Len(s) : IsSpace(s[i]) THEN <<>>
    ELSE SubSeq(s, CHOOSE i \in 1..Len(s) :
                      ~IsSpace(s[i]) /\ \A j \in 1..(i - 1) : IsSpace(s[j]),
                Len(s))

RStrip(s) == RStripOf(s, {" "})

Strip(s) == RStrip(LStrip(s))

\* s[:n]
Take(s, n) == IF Len(s) > n THEN SubSeq(s, 1, n) ELSE s

\* s[n:] (0-based n)
Drop(s, n) == SubSeq(s, n + 1, Len(s))

MinOf(S) == CHOOSE x \in S : \A y \in S : x <= y
MaxOf(S) == CHOOSE x \in S : \A y \in S : x >= y

\* The decimal digits of n: the remote's item ids are numeric strings.
RECURSIVE Digits(_)
Digits(n) ==
    IF n < 10 THEN << Ascii[Ord("0") + n] >>
    ELSE Append(Digits(n \div 10), Ascii[Ord("0") + (n % 10)])

-----------------------------------------------------------------------------
(* normalize_subject *)

\* _BRACKET_TAG_RE.sub("", s):  ^\s*\[[^\]]+\]\s*
BracketTagSub(s) ==
    LET t == LStrip(s)
        close == {i \in 1..Len(t) : t[i] = "]"}
    IN  IF t /= <<>> /\ Head(t) = "[" /\ close /= {} /\ MinOf(close) >= 3
        THEN LStrip(Drop(t, MinOf(close)))
        ELSE s

PrefixTokens ==
    { <<"r", "e">>, <<"f", "w">>, <<"f", "w", "d">>, <<"a", "w">>,
      <<"s", "v">>, <<"r", "v">>, <<"r", "e", "f">>, <<"r", "e", "s">> }

\* One repetition of (token \s* [:\]] \s*) at the start of t: what is left of t.
PrefixRest(t, tok) == LStrip(Tail(LStrip(Drop(t, Len(tok)))))

PrefixMatches(t, tok) ==
    /\ Len(t) >= Len(tok)
    /\ LowerStr(SubSeq(t, 1, Len(tok))) = tok
    /\ LET r == LStrip(Drop(t, Len(tok)))
       IN  r /= <<>> /\ Head(r) \in {":", "]"}

RECURSIVE PrefixAll(_)
PrefixAll(t) ==
    IF \E tok \in PrefixTokens : PrefixMatches(t, tok)
    THEN PrefixAll(PrefixRest(t, CHOOSE tok \in PrefixTokens : PrefixMatches(t, tok)))
    ELSE t

\* _PREFIX_RE.sub("", s):  ^\s*((re|fw|fwd|aw|sv|rv|ref|res)\s*[:\]]\s*)+
PrefixSub(s) ==
    LET t == LStrip(s)
    IN  IF \E tok \in PrefixTokens : PrefixMatches(t, tok) THEN PrefixAll(t) ELSE s

Openers == {"(", "[", "{"}
Closers == {")", "]", "}"}

\* _TRAILING_PARENS_RE.sub("", s):  \s*[\(\[\{][^\)\]\}]*[\)\]\}]\s*$
\* The leftmost match starts at the white space before the first opener that
\* follows the last closer but one.
TrailingParensSub(s) ==
    LET u == RStrip(s)
        j == Len(u)
    IN  IF j = 0 \/ u[j] \notin Closers THEN s
        ELSE LET m  == MaxOf({0} \cup {i \in 1..(j - 1) : u[i] \in Closers})
                 ks == {k \in (m + 1)..(j - 1) : u[k] \in Openers}
             IN  IF ks = {} THEN s
                 ELSE SubSeq(u, 1, Len(RStrip(SubSeq(u, 1, MinOf(ks) - 1))))

RECURSIVE StripTags(_)
StripTags(s) ==
    LET n == BracketTagSub(s) IN IF n = s THEN s ELSE StripTags(Strip(n))

RECURSIVE StripPrefixes(_)
StripPrefixes(s) ==
    LET n == PrefixSub(s) IN IF n = s THEN s ELSE StripPrefixes(Strip(n))

RECURSIVE StripTrailing(_)
StripTrailing(s) ==
    LET n == TrailingParensSub(s) IN IF n = s THEN s ELSE StripTrailing(Strip(n))

\* re.sub(r"\s+", " ", s): of every run of white space the first character
\* stays, as a blank.
CollapseWs(s) ==
    LET keep == {i \in 1..Len(s) : ~IsSpace(s[i]) \/ i = 1 \/ ~IsSpace(s[i - 1])}
    IN  IF keep = 1..Len(s) THEN s
        ELSE LET pos == [i \in keep |-> Cardinality({j \in keep : j <= i})]
             IN  [k \in 1..Cardinality(keep) |-> s[CHOOSE i \in keep : pos[i] = k]]

\* re.sub(r"[-:|]+$", "", s)
StripTrailingPunct(s) == RStripOf(s, {"-", ":", "|"})

normalize_subject(s) ==
    IF s = <<>> THEN <<>>
    ELSE LET s1 == StripTags(Strip(s))
             s2 == StripPrefixes(s1)
             s3 == StripTrailing(s2)
             s4 == Strip(CollapseWs(s3))
             s5 == Strip(StripTrailingPunct(s4))
         IN  LowerStr(s5)

-----------------------------------------------------------------------------
(* Sorting: Python's stable list.sort on a key (integer, string) *)

KeyLess(a, b) == a.k1 < b.k1 \/ (a.k1 = b.k1 /\ StrLess(a.k2, b.k2))

RECURSIVE InsertKeyed(_, _)
InsertKeyed(x, s) ==
    IF s = <<>> THEN <<x>>
    ELSE IF KeyLess(x, Head(s)) THEN <<x>> \o s
    ELSE <<Head(s)>> \o InsertKeyed(x, Tail(s))

\* s is a sequence of [k1, k2, v]; the result is stably sorted by (k1, k2).
RECURSIVE SortKeyed(_)
SortKeyed(s) ==
    IF s = <<>> THEN <<>>
    ELSE InsertKeyed(s[Len(s)], SortKeyed(SubSeq(s, 1, Len(s) - 1)))

Values(s) == [i \in 1..Len(s) |-> s[i].v]

\* The elements of s that satisfy the test given as a set of indexes.
RECURSIVE SelectIdx(_, _)
SelectIdx(s, keep) ==
    IF s = <<>> THEN <<>>
    ELSE LET rest == SelectIdx(SubSeq(s, 1, Len(s) - 1), keep)
         IN  IF Len(s) \in keep THEN Append(rest, s[Len(s)]) ELSE rest

Range(s) == {s[i] : i \in 1..Len(s)}

-----------------------------------------------------------------------------
(* group_items *)

\* ts(): epoch seconds of created_at, 0 when it does not parse.  A created_at
\* that does not parse (or is missing) is modelled as a negative number.
ts(created_at) == IF created_at < 0 THEN 0 ELSE created_at

shape(it) ==
    [ id            |-> it.id,
      name          |-> it.name,
      subject_norm  |-> normalize_subject(it.name),
      created_at_ts |-> ts(it.created_at) ]

\* Mutant: the items of a group sorted by id alone.
ItemSortKeyIdOnly(x) == [k1 |-> 0, k2 |-> x.id, v |-> x]

\* key=lambda x: (x["created_at_ts"], x["id"])
ItemSortKey(x) == [k1 |-> x.created_at_ts, k2 |-> x.id, v |-> x]

\* by_subj: the subjects in order of first occurrence.
RECURSIVE SubjectsInOrder(_)
SubjectsInOrder(shaped) ==
    IF shaped = <<>> THEN <<>>
    ELSE LET rest == SubjectsInOrder(SubSeq(shaped, 1, Len(shaped) - 1))
             subj == shaped[Len(shaped)].subject_norm
         IN  IF subj \in Range(rest) THEN rest ELSE Append(rest, subj)

\* Mutant: by_subj[subj] = [it] instead of setdefault(...).append(it).
ExactGroupLastOnly(shaped, subj) ==
    LET last == shaped[MaxOf({i \in 1..Len(shaped) : shaped[i].subject_norm = subj})]
    IN  [ subject_norm |-> subj, item_ids_oldest_first |-> <<last.id>>, count |-> 1 ]

\* One entry of `grouped` for subject subj.
ExactGroup(shaped, subj) ==
    LET arr    == SelectIdx(shaped, {i \in 1..Len(shaped) : shaped[i].subject_norm = subj})
        sorted == Values(SortKeyed([i \in 1..Len(arr) |-> ItemSortKey(arr[i])]))
    IN  [ subject_norm          |-> subj,
          item_ids_oldest_first |-> [i \in 1..Len(sorted) |-> sorted[i].id],
          count                 |-> Len(sorted) ]

\* Mutant: the groups are sorted by subject alone.
GroupSortKeySubjectOnly(g) == [k1 |-> 0, k2 |-> g.subject_norm, v |-> g]

\* key=lambda g: (-g["count"], g["subject_norm"])
GroupSortKey(g) == [k1 |-> 0 - g.count, k2 |-> g.subject_norm, v |-> g]

\* The first component of group_items' result.
group_items(its) ==
    LET shaped  == [i \in 1..Len(its) |-> shape(its[i])]
        subjs   == SubjectsInOrder(shaped)
        grouped == [i \in 1..Len(subjs) |-> ExactGroup(shaped, subjs[i])]
    IN  Values(SortKeyed([i \in 1..Len(grouped) |-> GroupSortKey(grouped[i])]))

\* The second component: {x["id"]: x["name"] for x in shaped}.
IdToName(its) ==
    [id \in {its[i].id : i \in 1..Len(its)} |->
        its[MaxOf({i \in 1..Len(its) : its[i].id = id})].name]

-----------------------------------------------------------------------------
(* ai_cluster_items *)

\* _cos(v, vecs[rep_idx]) >= sim_threshold, for the embeddings of two texts.
Similar(rel, a, b) == {a, b} \in rel

AiSortKey(x) == [k1 |-> x.created_at_ts, k2 |-> x.id, v |-> x]

\* _shape_for_ai: id, stripped name, created_at_ts; oldest first.
shape_for_ai(raw_items) ==
    LET shaped == [i \in 1..Len(raw_items) |->
                      [ id            |-> raw_items[i].id,
                        name          |-> Strip(raw_items[i].name),
                        created_at_ts |-> ts(raw_items[i].created_at) ]]
    IN  Values(SortKeyed([i \in 1..Len(shaped) |-> AiSortKey(shaped[i])]))

\* shaped_all[-limit_items:]
LastN(s, n) ==
    IF n = 0 \/ n >= Len(s) THEN s ELSE SubSeq(s, Len(s) - n + 1, Len(s))

\* Mutant: the item joins the last cluster whose representative is similar.
JoinedClusterLast(rel, names, clusters, i) ==
    LET hits == {c \in 1..Len(clusters) : Similar(rel, names[i], names[clusters[c][1]])}
    IN  IF hits = {} THEN 0 ELSE MaxOf(hits)

\* The cluster item i joins: the first whose representative is similar, else 0.
JoinedCluster(rel, names, clusters, i) ==
    LET hits == {c \in 1..Len(clusters) : Similar(rel, names[i], names[clusters[c][1]])}
    IN  IF hits = {} THEN 0 ELSE MinOf(hits)

\* The greedy pass over items 1..n: a list of lists of indexes.
RECURSIVE GreedyClusters(_, _, _)
GreedyClusters(rel, names, n) ==
    IF n = 0 THEN <<>>
    ELSE LET clusters == GreedyClusters(rel, names, n - 1)
             c        == JoinedCluster(rel, names, clusters, n)
         IN  IF c = 0 THEN Append(clusters, <<n>>)
             ELSE [clusters EXCEPT ![c] = Append(@, n)]

LabelLen == 80

\* key=lambda g: (-g["count"], g["label"])
AiGroupSortKey(g) == [k1 |-> 0 - g.count, k2 |-> g.label, v |-> g]

\* Lines 247-280: the clusters of two or more among the newest items.
Clustered(raw_items, limit_items, rel) ==
    LET shaped == LastN(shape_for_ai(raw_items), limit_items)
    IN  IF Len(shaped) < 2 THEN <<>>
        ELSE LET names    == [i \in 1..Len(shaped) |-> shaped[i].name]
                 clusters == GreedyClusters(rel, names, Len(shaped))
                 big      == SelectIdx(clusters,
                                 {c \in 1..Len(clusters) : Len(clusters[c]) >= 2})
                 grps     == [c \in 1..Len(big) |->
                                 [ label |-> Take(names[big[c][1]], LabelLen),
                                   item_ids_oldest_first |->
                                       [j \in 1..Len(big[c]) |-> shaped[big[c][j]].id],
                                   count |-> Len(big[c]) ]]
             IN  Values(SortKeyed([c \in 1..Len(grps) |-> AiGroupSortKey(grps[c])]))

\* Mutant: the credential is not asked for.
ai_cluster_items_keyless(raw_items, has_key, limit_items, rel) ==
    Clustered(raw_items, limit_items, rel)

\* Lines 244-245, then the clustering.
ai_cluster_items(raw_items, has_key, limit_items, rel) ==
    IF ~has_key THEN <<>> ELSE Clustered(raw_items, limit_items, rel)

-----------------------------------------------------------------------------
(* main(): the merge planner *)

\* An ai group as main() renames it.
AsCandidate(g) ==
    [ subject_norm          |-> g.label,
      item_ids_oldest_first |-> g.item_ids_oldest_first,
      count                 |-> g.count ]

\* [g for g in grouped_exact if g["count"] >= MIN_COUNT]
Qualifying(grouped, c) ==
    SelectIdx(grouped, {i \in 1..Len(grouped) : grouped[i].count >= c.min_count})

\* Mutant: used_ids is never filled.
UsedIdsNone(exact_first) == {}

\* used_ids
UsedIds(exact_first) ==
    UNION {Range(exact_first[i].item_ids_oldest_first) : i \in 1..Len(exact_first)}

\* leftovers = [it for it in items if str(it["id"]) not in used_ids]
Leftovers(its, used_ids) ==
    SelectIdx(its, {i \in 1..Len(its) : its[i].id \notin used_ids})

AiCandidates(raw_items, c, rel) ==
    LET ai_groups == ai_cluster_items(raw_items, c.has_key, c.max_items_embed, rel)
    IN  [i \in 1..Len(ai_groups) |-> AsCandidate(ai_groups[i])]

\* Mutant: hybrid puts the semantic clusters before the exact groups.
PlanGroupsAiFirst(grouped, its, left, c, rel) ==
    IF c.mode = "exact" THEN Take(Qualifying(grouped, c), c.max_groups)
    ELSE IF c.mode = "ai" THEN Take(AiCandidates(its, c, rel), c.max_groups)
    ELSE Take(AiCandidates(left, c, rel) \o Qualifying(grouped, c), c.max_groups)

\* Lines 409-436: the candidates, from the exact view, the items and (hybrid)
\* the leftovers.
PlanGroups(grouped, its, left, c, rel) ==
    IF c.mode = "exact" THEN Take(Qualifying(grouped, c), c.max_groups)
    ELSE IF c.mode = "ai" THEN Take(AiCandidates(its, c, rel), c.max_groups)
    ELSE Take(Qualifying(grouped, c) \o AiCandidates(left, c, rel), c.max_groups)

\* Lines 407-436 of main(): the exact view, the id -> name map, the candidates.
MainPlan ==
    /\ pc = "plan"
    /\ grouped_exact' = group_items(items)
    /\ id_to_name' = IdToName(items)
    /\ leftovers' = IF cfg.mode \in {"exact", "ai"} THEN <<>>
                    ELSE Leftovers(items, UsedIds(Qualifying(grouped_exact', cfg)))
    /\ groups' = PlanGroups(grouped_exact', items, leftovers', cfg, sim)
    /\ gi' = 1
    /\ pc' = "loop"
    /\ UNCHANGED <<cfg, sim, board, items, existing, pending, cs, loc, run_summary>>
    /\ UNCHANGED <<rt, web>>
    /\ UNCHANGED remoteVars

-----------------------------------------------------------------------------
(* Boards and settings *)

\* Bounds of the model.
NumItems == 4

\* Defaults of the settings (app.py lines 23-27).
DefaultMaxItemsEmbed == 300
DefaultMinCount == 2
DefaultMaxGroups == 8
DefaultMaxChildren == 25

TitleA == <<"a">>
TitleReA == <<"R", "E", ":", " ", "a">>
TitleB == <<"b">>
TitleC == <<"c">>
TitlePool == {TitleA, TitleReA, TitleB}
PlanTitles == TitlePool \cup {TitleC}

\* Ids 8, 9, 10, 11, ...: as strings "10" < "11" < "8" < "9".
ItemId(k) == Digits(k + 7)

\* created_at of the k-th of n items: none parses, ascending, descending.
TsPatterns == {"none", "asc", "desc"}
CreatedAt(p, k, n) == IF p = "none" THEN 0 - 1 ELSE IF p = "asc" THEN k ELSE n + 1 - k

Boards ==
    UNION { { [k \in 1..n |-> [ id |-> ItemId(k), name |-> title[k],
                                created_at |-> CreatedAt(p, k, n), group |-> "g1" ]]
              : title \in [1..n -> PlanTitles], p \in TsPatterns }
            : n \in 0..NumItems }

Modes == {"exact", "ai", "hybrid"}

\* Which pairs of distinct texts the embeddings put at or above the threshold;
\* a text is always similar to itself (the two vectors are the same).
SimPairs == {{TitleA, TitleReA}, {TitleA, TitleB}, {TitleB, TitleC}}
SimRelations == { {{t} : t \in PlanTitles} \cup r : r \in SUBSET SimPairs }

BaseCfg ==
    [ mode            |-> "exact",
      has_key         |-> FALSE,
      max_items_embed |-> DefaultMaxItemsEmbed,
      min_count       |-> DefaultMinCount,
      max_groups      |-> DefaultMaxGroups,
      max_children    |-> DefaultMaxChildren,
      after_action    |-> "none",
      move_group_id   |-> "",
      group_filter    |-> {} ]

\* The settings the planner reads.
PlanCfgs ==
    { [BaseCfg EXCEPT !.mode = m, !.has_key = k, !.max_items_embed = e,
                      !.min_count = c, !.max_groups = g]
      : m \in Modes, k \in BOOLEAN, e \in {2, DefaultMaxItemsEmbed},
        c \in {1, DefaultMinCount}, g \in {1, DefaultMaxGroups} }

\* Settings that differ only in what the mode never reads are taken once, and
\* the item limit is varied in ai mode only.
PlanCfgRelevant(c) ==
    /\ c.mode = "exact" => ~c.has_key
    /\ c.mode = "ai" => c.min_count = DefaultMinCount
    /\ ~c.has_key => c.max_items_embed = DefaultMaxItemsEmbed
    /\ (c.mode = "hybrid" /\ c.min_count = 1) => ~c.has_key
    /\ c.mode = "hybrid" => c.max_items_embed = DefaultMaxItemsEmbed

NoRetry == [state |-> "idle"]
NoWeb == [state |-> "idle"]
NoCreate == [state |-> "idle", names |-> <<>>, off |-> 0, k |-> 0]
NoLocals ==
    [ represented_ids |-> <<>>, off |-> 0, total_created |-> 0, moved |-> 0,
      archived |-> 0 ]
EmptySummary ==
    [ processed_groups |-> 0, created_subitems |-> 0, moved_originals |-> 0,
      archived_originals |-> 0, combined_items |-> <<>>, moved_items |-> <<>>,
      archived_items |-> <<>> ]

\* The planner on its own: the state after fetch_all returned the board.
InitPlan ==
    /\ board \in Boards
    /\ items = board
    /\ cfg \in {c \in PlanCfgs : PlanCfgRelevant(c)}
    /\ sim \in IF cfg.has_key THEN SimRelations ELSE {{}}
    /\ pc = "plan"
    /\ grouped_exact = <<>> /\ id_to_name = <<>> /\ leftovers = <<>> /\ groups = <<>>
    /\ gi = 0 /\ existing = {} /\ pending = <<>> /\ cs = NoCreate /\ loc = NoLocals
    /\ run_summary = EmptySummary
    /\ subitems = <<>> /\ moved = {} /\ archived = {} /\ faults = 0 /\ calls = <<>>
    /\ rt = NoRetry /\ web = NoWeb

NextPlan == MainPlan

SpecPlan == InitPlan /\ [][NextPlan]_vars

-----------------------------------------------------------------------------
(* Properties of the planner *)

ItemIds == {items[i].id : i \in 1..Len(items)}
ItemOf(id) == CHOOSE it \in Range(items) : it.id = id
GroupIds(g) == Range(g.item_ids_oldest_first)
NoRepeat(s) == \A i, j \in 1..Len(s) : i /= j => s[i] /= s[j]

\* a comes before b in (created_at_ts ascending, id ascending)
OlderThan(a, b) ==
    \/ ts(ItemOf(a).created_at) < ts(ItemOf(b).created_at)
    \/ /\ ts(ItemOf(a).created_at) = ts(ItemOf(b).created_at)
       /\ StrLess(a, b)

OldestFirst(g) ==
    \A i, j \in 1..Len(g.item_ids_oldest_first) :
        i < j => OlderThan(g.item_ids_oldest_first[i], g.item_ids_oldest_first[j])

\* C8: the groups of group_items partition the input ids: their union is the
\* input id set, no id is in two groups or twice in one, every group is
\* non-empty and its count is the number of its member ids.
C8_ExactGroupsPartition ==
    pc = "loop" =>
        /\ UNION {GroupIds(grouped_exact[i]) : i \in 1..Len(grouped_exact)} = ItemIds
        /\ \A i, j \in 1..Len(grouped_exact) :
               i /= j => GroupIds(grouped_exact[i]) \cap GroupIds(grouped_exact[j]) = {}
        /\ \A i \in 1..Len(grouped_exact) :
               /\ NoRepeat(grouped_exact[i].item_ids_oldest_first)
               /\ grouped_exact[i].count >= 1
               /\ grouped_exact[i].count = Cardinality(GroupIds(grouped_exact[i]))

C8_Witness ==
    /\ pc = "loop"
    /\ Len(items) = NumItems
    /\ Len(grouped_exact) = 2
    /\ grouped_exact[1].count = NumItems - 1

\* C9: in every exact group and every candidate group (exact or semantic) the
\* member ids are in (created_at_ts ascending, id ascending) order, so the
\* first id is the oldest member, ties going to the smaller id.
C9_GroupsOldestFirst ==
    pc = "loop" =>
        /\ \A i \in 1..Len(grouped_exact) : OldestFirst(grouped_exact[i])
        /\ \A i \in 1..Len(groups) : OldestFirst(groups[i])

\* An exact group and a semantic cluster, the cluster with a tie on
\* created_at_ts that the id decides against the fetch order ("10" < "8").
C9_Witness ==
    /\ pc = "loop"
    /\ cfg.mode = "hybrid"
    /\ Len(groups) = 2
    /\ GroupIds(groups[1]) \cap Range([i \in 1..Len(leftovers) |-> leftovers[i].id]) = {}
    /\ groups[2].item_ids_oldest_first = <<ItemId(3), ItemId(1)>>
    /\ GroupIds(groups[2]) = Range([i \in 1..Len(leftovers) |-> leftovers[i].id])
    /\ ItemOf(ItemId(3)).created_at = ItemOf(ItemId(1)).created_at

LeftoverIds == {leftovers[i].id : i \in 1..Len(leftovers)}

\* C10: in hybrid mode the items handed to the semantic clusterer are exactly
\* the fetched items in no exact group with count >= MIN_COUNT; in every mode
\* no item id is in two candidate groups.
C10_HybridDisjoint ==
    pc = "loop" =>
        /\ cfg.mode = "hybrid" =>
              /\ LeftoverIds =
                    ItemIds \ UNION { GroupIds(grouped_exact[i]) :
                                      i \in {k \in 1..Len(grouped_exact) :
                                               grouped_exact[k].count >= cfg.min_count} }
              /\ Len(leftovers) = Cardinality(LeftoverIds)
        /\ \A i, j \in 1..Len(groups) :
               i /= j => GroupIds(groups[i]) \cap GroupIds(groups[j]) = {}

\* Hybrid with an exact group and a semantic cluster of leftovers.
C10_Witness ==
    /\ pc = "loop"
    /\ cfg.mode = "hybrid"
    /\ Len(leftovers) = 2
    /\ Len(items) = NumItems
    /\ \E i, j \in 1..Len(groups) :
          /\ GroupIds(groups[i]) = LeftoverIds
          /\ GroupIds(groups[j]) = ItemIds \ LeftoverIds

-----------------------------------------------------------------------------
(* gql_with_retry.  Times are in tenths of a time unit. *)

MaxRetries == 5
InitialDelay == 5
DelayCap == 50
JitterStep == 1

\* What an error message of gql() can contain, as far as the wrapper looks.
TransientSignatures ==
    { "TooManyConcurrentRequestsException",
      "Failed to lock item id for graphql mutation",
      "status_code': 429",
      "HTTP 429" }

\* The messages gql() raises, each as the set of signatures it contains.
ErrorMessages ==
    {{sig} : sig \in TransientSignatures} \cup {{"HTTP 500"}, {"No JSON in response"}}

\* gql() returning, where a message stands for its raising.
CallOk == {"ok"}

\* Lines 86-91.
IsTransient(msg) == msg \cap TransientSignatures /= {}

\* Mutant: sleeps and continues after the last attempt too.
ShouldRetryAlso(msg, attempt) == IsTransient(msg) /\ attempt < MaxRetries

\* Line 92.
ShouldRetry(msg, attempt) == IsTransient(msg) /\ attempt < MaxRetries - 1

\* Mutant: the doubling is not capped.
NextDelayUncapped(delay) == delay * 2

\* Line 95.
NextDelay(delay) == IF delay * 2 < DelayCap THEN delay * 2 ELSE DelayCap

RetryStart ==
    [ state |-> "running", attempt |-> 0, delay |-> InitialDelay,
      tries |-> <<>>, sleeps |-> <<>>, result |-> "none" ]

\* One pass of the for loop: the call of gql() and what follows it.
RetryAttempt ==
    /\ rt.state = "running"
    /\ rt.attempt < MaxRetries
    /\ \/ \* gql() returns: the wrapper returns its data
          rt' = [rt EXCEPT !.state = "returned",
                           !.tries = Append(@, CallOk),
                           !.result = <<"data", rt.attempt + 1>>]
       \/ \* gql() raises msg
          \E msg \in ErrorMessages :
             IF ShouldRetry(msg, rt.attempt)
             THEN rt' = [rt EXCEPT
                            !.tries = Append(@, msg),
                            !.sleeps = Append(@, rt.delay + JitterStep * rt.attempt),
                            !.delay = NextDelay(rt.delay),
                            !.attempt = @ + 1,
                            \* the loop running out returns None
                            !.state = IF rt.attempt + 1 < MaxRetries
                                      THEN "running" ELSE "returned",
                            !.result = IF rt.attempt + 1 < MaxRetries
                                       THEN "none" ELSE "None"]
             ELSE rt' = [rt EXCEPT !.state = "raised",
                                   !.tries = Append(@, msg),
                                   !.result = <<msg, rt.attempt + 1>>]
    /\ UNCHANGED <<cfg, sim, board, pc, web>>
    /\ UNCHANGED planVars
    /\ UNCHANGED loopVars
    /\ UNCHANGED remoteVars

InitRetry ==
    /\ rt = RetryStart
    /\ web = NoWeb
    /\ cfg = BaseCfg /\ sim = {} /\ board = <<>> /\ items = <<>>
    /\ pc = "idle"
    /\ grouped_exact = <<>> /\ id_to_name = <<>> /\ leftovers = <<>> /\ groups = <<>>
    /\ gi = 0 /\ existing = {} /\ pending = <<>> /\ cs = NoCreate /\ loc = NoLocals
    /\ run_summary = EmptySummary
    /\ subitems = <<>> /\ moved = {} /\ archived = {} /\ faults = 0 /\ calls = <<>>

NextRetry == RetryAttempt

SpecRetry == InitRetry /\ [][NextRetry]_vars

(* Properties of gql_with_retry *)

Finished(r) == r.state \in {"returned", "raised"}
EarlierTransient(r) ==
    \A i \in 1..(Len(r.tries) - 1) : r.tries[i] /= CallOk /\ IsTransient(r.tries[i])

\* C6: at most 5 calls per invocation; the result of the first successful
\* attempt is returned; a failure that is not transient is raised at once; when
\* all attempts fail transiently the error of the 5th is raised; no sleep
\* follows the final attempt.
C6_RetryAtMostFive ==
    /\ rt.state /= "idle" =>
          /\ Len(rt.tries) <= MaxRetries
          /\ Len(rt.tries) = rt.attempt + (IF Finished(rt) THEN 1 ELSE 0)
    /\ rt.state = "running" =>
          /\ \A i \in 1..Len(rt.tries) : rt.tries[i] /= CallOk /\ IsTransient(rt.tries[i])
          /\ Len(rt.sleeps) = Len(rt.tries)
          /\ Len(rt.tries) < MaxRetries
    /\ rt.state = "returned" =>
          /\ rt.tries[Len(rt.tries)] = CallOk
          /\ rt.result = <<"data", Len(rt.tries)>>
          /\ EarlierTransient(rt)
          /\ Len(rt.sleeps) = Len(rt.tries) - 1
    /\ rt.state = "raised" =>
          /\ rt.tries[Len(rt.tries)] /= CallOk
          /\ rt.result = <<rt.tries[Len(rt.tries)], Len(rt.tries)>>
          /\ ~IsTransient(rt.tries[Len(rt.tries)]) \/ Len(rt.tries) = MaxRetries
          /\ EarlierTransient(rt)
          /\ Len(rt.sleeps) = Len(rt.tries) - 1

\* Five transient failures of different kinds: the fifth error is raised.
C6_Witness ==
    /\ rt.state = "raised"
    /\ Len(rt.tries) = MaxRetries
    /\ IsTransient(rt.tries[MaxRetries])
    /\ rt.tries[1] /= rt.tries[MaxRetries]
    /\ rt.result = <<rt.tries[MaxRetries], MaxRetries>>

RECURSIVE Pow2(_)
Pow2(k) == IF k = 0 THEN 1 ELSE 2 * Pow2(k - 1)

All429(r) == \A i \in 1..Len(r.tries) : r.tries[i] = {"HTTP 429"}

\* min(0.5 * 2^k, 5.0) + 0.1 * k, in tenths
ExpectedWait(k) == (IF 5 * Pow2(k) < 50 THEN 5 * Pow2(k) ELSE 50) + k

\* C7: when every attempt fails with "HTTP 429" the waits between attempts are
\* min(0.5*2^k, 5.0) + 0.1*k for k = 0..3 (5, 11, 22, 43 tenths): exactly four,
\* strictly increasing, the backoff term never above 5.0.
C7_BackoffWaits ==
    (rt.state /= "idle" /\ All429(rt)) =>
        /\ \A k \in 0..(Len(rt.sleeps) - 1) : rt.sleeps[k + 1] = ExpectedWait(k)
        /\ \A k \in 1..(Len(rt.sleeps) - 1) : rt.sleeps[k] < rt.sleeps[k + 1]
        /\ rt.delay <= 50
        /\ Len(rt.sleeps) <= 4
        /\ rt.state = "raised" => rt.sleeps = <<5, 11, 22, 43>>

C7_Witness ==
    /\ rt.state = "raised"
    /\ Len(rt.tries) = 5
    /\ All429(rt)
    /\ rt.sleeps = <<5, 11, 22, 43>>

-----------------------------------------------------------------------------
(* web.py: /run-now and the background run.  Every request is served on a
   thread of its own, and every accepted request starts a thread running
   _do_run_now; a thread can be preempted between any two statements. *)

MaxRequests == 3

Requests == 1..MaxRequests

WebStart ==
    [ state            |-> "serving",
      run_in_progress  |-> FALSE,
      last_run_summary |-> <<"none", 0>>,
      log              |-> <<>>,
      req              |-> [r \in Requests |-> "none"],
      run              |-> [r \in Requests |-> "none"] ]

\* Lines 382-384: the token check of a request that arrives.
RunNowArrive(r) ==
    /\ web.state = "serving"
    /\ web.req[r] = "none"
    /\ \E token_ok \in BOOLEAN :
          web' = [web EXCEPT !.req[r] = IF token_ok THEN "check" ELSE "aborted"]
    /\ UNCHANGED <<cfg, sim, board, pc, rt>>
    /\ UNCHANGED planVars
    /\ UNCHANGED loopVars
    /\ UNCHANGED remoteVars

\* Lines 387-391: the flag is read; a request that finds it set logs and returns.
RunNowCheck(r) ==
    /\ web.state = "serving"
    /\ web.req[r] = "check"
    /\ IF web.run_in_progress
       THEN web' = [web EXCEPT !.req[r] = "ignored", !.log = Append(@, "ignored")]
       ELSE web' = [web EXCEPT !.req[r] = "launch"]
    /\ UNCHANGED <<cfg, sim, board, pc, rt>>
    /\ UNCHANGED planVars
    /\ UNCHANGED loopVars
    /\ UNCHANGED remoteVars

\* Lines 393-396: the flag is set and the thread started.
RunNowLaunch(r) ==
    /\ web.state = "serving"
    /\ web.req[r] = "launch"
    /\ web' = [web EXCEPT !.req[r] = "accepted",
                          !.run_in_progress = TRUE,
                          !.run[r] = "started"]
    /\ UNCHANGED <<cfg, sim, board, pc, rt>>
    /\ UNCHANGED planVars
    /\ UNCHANGED loopVars
    /\ UNCHANGED remoteVars

\* Lines 361-363: the header is logged and the settings are loaded, outside the
\* try; load_cfg() raising ends the thread there.
DoRunHeader(r) ==
    /\ web.run[r] = "started"
    /\ \E cfg_ok \in BOOLEAN :
          web' = [web EXCEPT !.log = Append(@, "header"),
                             !.run[r] = IF cfg_ok THEN "main" ELSE "died"]
    /\ UNCHANGED <<cfg, sim, board, pc, rt>>
    /\ UNCHANGED planVars
    /\ UNCHANGED loopVars
    /\ UNCHANGED remoteVars

\* Lines 364-375: app.main() returns or raises; the outcome is logged and stored.
DoRunMain(r) ==
    /\ web.run[r] = "main"
    /\ \E ok \in BOOLEAN :
          web' = [web EXCEPT
                     !.log = Append(@, IF ok THEN "end" ELSE "error"),
                     !.last_run_summary = <<IF ok THEN "summary" ELSE "error", r>>,
                     !.run[r] = "finally"]
    /\ UNCHANGED <<cfg, sim, board, pc, rt>>
    /\ UNCHANGED planVars
    /\ UNCHANGED loopVars
    /\ UNCHANGED remoteVars

\* Lines 376-377: finally.
DoRunFinally(r) ==
    /\ web.run[r] = "finally"
    /\ web' = [web EXCEPT !.run_in_progress = FALSE, !.run[r] = "ended"]
    /\ UNCHANGED <<cfg, sim, board, pc, rt>>
    /\ UNCHANGED planVars
    /\ UNCHANGED loopVars
    /\ UNCHANGED remoteVars

InitWeb ==
    /\ web = WebStart
    /\ rt = NoRetry
    /\ cfg = BaseCfg /\ sim = {} /\ board = <<>> /\ items = <<>>
    /\ pc = "idle"
    /\ grouped_exact = <<>> /\ id_to_name = <<>> /\ leftovers = <<>> /\ groups = <<>>
    /\ gi = 0 /\ existing = {} /\ pending = <<>> /\ cs = NoCreate /\ loc = NoLocals
    /\ run_summary = EmptySummary
    /\ subitems = <<>> /\ moved = {} /\ archived = {} /\ faults = 0 /\ calls = <<>>

NextWeb ==
    \E r \in Requests :
        \/ RunNowArrive(r)
        \/ RunNowCheck(r)
        \/ RunNowLaunch(r)
        \/ DoRunHeader(r)
        \/ DoRunMain(r)
        \/ DoRunFinally(r)

SpecWeb == InitWeb /\ [][NextWeb]_vars

(* Properties of the run trigger *)

\* The runs executing _do_run_now.
ActiveRuns == {r \in Requests : web.run[r] \in {"started", "main", "finally"}}

\* C1: under every interleaving of /run-now requests and run completions at
\* most one consolidation run is active at any time.
C1_AtMostOneActiveRun == web.state = "serving" => Cardinality(ActiveRuns) <= 1

\* C24: the run-in-progress flag is never left set while no run is active:
\* every run that was started resets it when it ends, normally or with an
\* error.
C24_FlagResetAtEnd ==
    (web.state = "serving" /\ web.run_in_progress) => ActiveRuns /= {}

-----------------------------------------------------------------------------
(* main(): the consolidation executor, one remote call per step.  A remote
   call that fails has failed for good (gql raised, or gql_with_retry gave up)
   and has changed nothing on the board. *)

CreateBatchSize == 20
MoveBatchSize == 5
ArchiveBatchSize == 10
NameLimit == 255

\* Bound: the remote calls that fail in one run.
MaxFaults == 2

Outcomes == IF faults < MaxFaults THEN BOOLEAN ELSE {TRUE}

\* The record of one remote call: `retried` tells gql_with_retry from gql,
\* `had` is the set of child names under `parent` when the call was issued.
Call(op, retried, parent, args, ok) ==
    [ op |-> op, retried |-> retried, parent |-> parent, args |-> args, ok |-> ok,
      had |-> IF parent \in DOMAIN subitems THEN Range(subitems[parent]) ELSE {} ]

\* fetch_all for a board of one page.
fetch_all(b, group_filter) ==
    SelectIdx(b, {i \in 1..Len(b) : group_filter = {} \/ b[i].group \in group_filter})

\* get_existing_subitem_names, given the parent's child names.
ExistingNames(child_names) == {Strip(nm) : nm \in Range(child_names)} \ {<<>>}

ParentOf(g) == g.item_ids_oldest_first[1]

\* Mutant: the slice starts at the parent.
ChildrenWithParent(g, c) == Take(g.item_ids_oldest_first, c.max_children)

\* Mutant: the slice is not capped.
ChildrenUncapped(g, c) == Tail(g.item_ids_oldest_first)

\* ids[1:][:MAX_CHILDREN]
ChildrenOf(g, c) == Take(Tail(g.item_ids_oldest_first), c.max_children)

\* Lines 453-457.
PendingOf(children, names, have) ==
    LET keep == {i \in 1..Len(children) :
                    /\ Strip(names[children[i]]) /= <<>>
                    /\ Strip(names[children[i]]) \notin have}
        kept == SelectIdx(children, keep)
    IN  [i \in 1..Len(kept) |-> <<kept[i], Strip(names[kept[i]])>>]

NamesToCreate(pend) == [i \in 1..Len(pend) |-> pend[i][2]]
PendingIds(pend) == [i \in 1..Len(pend) |-> pend[i][1]]

\* _sanitize_name(name, fallback)
sanitize_name(name, fallback) ==
    Take(IF Strip(name) = <<>> THEN fallback ELSE Strip(name), NameLimit)

\* Lines 311-315: f"Item {i+1}" is the fallback of the i-th name (from 0).
CleanNames(names) ==
    [i \in 1..Len(names) |->
        sanitize_name(names[i], <<"I", "t", "e", "m", " ">> \o Digits(i))]

\* Mutant: the slice runs one element further.
ChunkOneMore(s, off, n) ==
    SubSeq(s, off + 1, IF off + n + 1 < Len(s) THEN off + n + 1 ELSE Len(s))

\* s[off:off+n]
Chunk(s, off, n) ==
    SubSeq(s, off + 1, IF off + n < Len(s) THEN off + n ELSE Len(s))

\* Lines 468-469.
RepresentedIds(children, pend, names, have) ==
    PendingIds(pend)
      \o SelectIdx(children, {i \in 1..Len(children) : Strip(names[children[i]]) \in have})

NamesOf(ids, names) == [i \in 1..Len(ids) |-> names[ids[i]]]

\* Line 406.
MainFetch ==
    /\ pc = "fetch"
    /\ \E ok \in Outcomes :
          /\ calls' = Append(calls, Call("fetch", FALSE, <<>>, <<>>, ok))
          /\ faults' = IF ok THEN faults ELSE faults + 1
          /\ items' = IF ok THEN fetch_all(board, cfg.group_filter) ELSE items
          /\ pc' = IF ok THEN "plan" ELSE "raised"
    /\ UNCHANGED <<cfg, sim, board, subitems, moved, archived, rt, web>>
    /\ UNCHANGED <<grouped_exact, id_to_name, leftovers, groups>>
    /\ UNCHANGED loopVars

\* Lines 441-444: a candidate with fewer than 2 ids is passed over.
MainLoopSkip ==
    /\ pc = "loop"
    /\ gi <= Len(groups)
    /\ Len(groups[gi].item_ids_oldest_first) < 2
    /\ gi' = gi + 1
    /\ UNCHANGED <<cfg, sim, board, pc, rt, web, existing, pending, cs, loc, run_summary>>
    /\ UNCHANGED planVars
    /\ UNCHANGED remoteVars

\* Mutant: the pending children are worked out from the board's state with
\* no read call issued.
MainLoopDiffNoRead ==
    /\ pc = "loop"
    /\ gi <= Len(groups)
    /\ Len(groups[gi].item_ids_oldest_first) >= 2
    /\ LET parent == ParentOf(groups[gi])
           have   == ExistingNames(subitems[parent])
           pend   == PendingOf(ChildrenOf(groups[gi], cfg), id_to_name, have)
       IN  \E ok \in Outcomes :
              /\ calls' = calls
              /\ faults' = IF ok THEN faults ELSE faults + 1
              /\ existing' = IF ok THEN have ELSE existing
              /\ pending' = IF ok THEN pend ELSE pending
              /\ cs' = IF ok /\ pend /= <<>>
                       THEN [ state |-> "batch", names |-> CleanNames(NamesToCreate(pend)),
                              off |-> 0, k |-> 0 ]
                       ELSE cs
              /\ pc' = IF ~ok THEN "raised" ELSE IF pend /= <<>> THEN "create" ELSE "post"
    /\ UNCHANGED <<cfg, sim, board, subitems, moved, archived, rt, web>>
    /\ UNCHANGED <<gi, loc, run_summary>>
    /\ UNCHANGED planVars

\* Lines 441-462: the parent's child names are read and the pending children
\* worked out; with some pending, create_subitems is entered (lines 308-317).
MainLoopDiff ==
    /\ pc = "loop"
    /\ gi <= Len(groups)
    /\ Len(groups[gi].item_ids_oldest_first) >= 2
    /\ LET parent == ParentOf(groups[gi])
           have   == ExistingNames(subitems[parent])
           pend   == PendingOf(ChildrenOf(groups[gi], cfg), id_to_name, have)
       IN  \E ok \in Outcomes :
              /\ calls' = Append(calls, Call("read", FALSE, parent, <<>>, ok))
              /\ faults' = IF ok THEN faults ELSE faults + 1
              /\ existing' = IF ok THEN have ELSE existing
              /\ pending' = IF ok THEN pend ELSE pending
              /\ cs' = IF ok /\ pend /= <<>>
                       THEN [ state |-> "batch", names |-> CleanNames(NamesToCreate(pend)),
                              off |-> 0, k |-> 0 ]
                       ELSE cs
              /\ pc' = IF ~ok THEN "raised" ELSE IF pend /= <<>> THEN "create" ELSE "post"
    /\ UNCHANGED <<cfg, sim, board, subitems, moved, archived, rt, web>>
    /\ UNCHANGED <<gi, loc, run_summary>>
    /\ UNCHANGED planVars

\* Mutant: the fallback gives up on the chunk at the first name that fails.
AfterSingleStopOnFail(c, chunk, ok) ==
    IF ok /\ c.k < Len(chunk) THEN [c EXCEPT !.k = @ + 1]
    ELSE [c EXCEPT !.state = "batch", !.k = 0, !.off = @ + CreateBatchSize]

\* Lines 341-347: after the single call for chunk[k], whatever its outcome, the
\* next name of the chunk, or the next chunk.
AfterSingle(c, chunk, ok) ==
    IF c.k < Len(chunk) THEN [c EXCEPT !.k = @ + 1]
    ELSE [c EXCEPT !.state = "batch", !.k = 0, !.off = @ + CreateBatchSize]

\* Lines 332-338: the batch mutation of the next chunk.
CreateBatch ==
    /\ pc = "create"
    /\ cs.state = "batch"
    /\ cs.off < Len(cs.names)
    /\ LET parent == ParentOf(groups[gi])
           chunk  == Chunk(cs.names, cs.off, CreateBatchSize)
       IN  \E ok \in Outcomes :
              /\ calls' = Append(calls, Call("create_batch", TRUE, parent, chunk, ok))
              /\ faults' = IF ok THEN faults ELSE faults + 1
              /\ subitems' = IF ok THEN [subitems EXCEPT ![parent] = @ \o chunk]
                             ELSE subitems
              /\ cs' = IF ok THEN [cs EXCEPT !.off = @ + CreateBatchSize]
                       ELSE [cs EXCEPT !.state = "single", !.k = 1]
    /\ UNCHANGED <<cfg, sim, board, moved, archived, pc, rt, web>>
    /\ UNCHANGED <<gi, existing, pending, loc, run_summary>>
    /\ UNCHANGED planVars

\* Lines 341-347: the single mutation of the next name of a failed chunk.
CreateSingle ==
    /\ pc = "create"
    /\ cs.state = "single"
    /\ LET parent == ParentOf(groups[gi])
           chunk  == Chunk(cs.names, cs.off, CreateBatchSize)
           nm     == chunk[cs.k]
       IN  \E ok \in Outcomes :
              /\ calls' = Append(calls, Call("create_single", TRUE, parent, <<nm>>, ok))
              /\ faults' = IF ok THEN faults ELSE faults + 1
              /\ subitems' = IF ok THEN [subitems EXCEPT ![parent] = Append(@, nm)]
                             ELSE subitems
              /\ cs' = AfterSingle(cs, chunk, ok)
    /\ UNCHANGED <<cfg, sim, board, moved, archived, pc, rt, web>>
    /\ UNCHANGED <<gi, existing, pending, loc, run_summary>>
    /\ UNCHANGED planVars

\* create_subitems returns (no names, or past the last chunk); lines 463-465.
CreateReturn ==
    /\ pc = "create"
    /\ cs.state = "batch"
    /\ cs.off >= Len(cs.names)
    /\ loc' = [loc EXCEPT !.total_created = @ + Len(NamesToCreate(pending))]
    /\ existing' = existing \cup Range(NamesToCreate(pending))
    /\ cs' = NoCreate
    /\ pc' = "post"
    /\ UNCHANGED <<cfg, sim, board, rt, web, gi, pending, run_summary>>
    /\ UNCHANGED planVars
    /\ UNCHANGED remoteVars

\* Mutant: relocation does not ask for MOVE_GROUP_ID.
PostActionAnyGroup(c, rep) ==
    IF rep = <<>> THEN "none"
    ELSE IF c.after_action = "move" THEN "move"
    ELSE IF c.after_action = "archive" THEN "archive"
    ELSE "none"

\* Lines 479-487: what is done with the represented originals.
PostAction(c, rep) ==
    IF rep = <<>> THEN "none"
    ELSE IF c.after_action = "move" /\ c.move_group_id /= "" THEN "move"
    ELSE IF c.after_action = "archive" THEN "archive"
    ELSE "none"

\* Lines 467-487, up to the first relocate or archive call.
MainRepresent ==
    /\ pc = "post"
    /\ LET g   == groups[gi]
           rep == RepresentedIds(ChildrenOf(g, cfg), pending, id_to_name, existing)
           act == PostAction(cfg, rep)
       IN  /\ run_summary' =
                 IF rep = <<>> THEN run_summary
                 ELSE [run_summary EXCEPT !.combined_items =
                          Append(@, [ parent   |-> id_to_name[ParentOf(g)],
                                      children |-> NamesOf(rep, id_to_name) ])]
           /\ loc' = [loc EXCEPT !.represented_ids = rep, !.off = 0]
           /\ pc' = IF act = "none" THEN "loop" ELSE act
           /\ gi' = IF act = "none" THEN gi + 1 ELSE gi
    /\ UNCHANGED <<cfg, sim, board, rt, web, existing, pending, cs>>
    /\ UNCHANGED planVars
    /\ UNCHANGED remoteVars

\* move_items: the next chunk; after the last one, lines 482-483.
MoveChunk ==
    /\ pc = "move"
    /\ LET rep   == loc.represented_ids
           chunk == Chunk(rep, loc.off, MoveBatchSize)
           last  == loc.off + MoveBatchSize >= Len(rep)
       IN  \E ok \in Outcomes :
              /\ calls' = Append(calls,
                                 Call("move", TRUE, ParentOf(groups[gi]), chunk, ok))
              /\ faults' = IF ok THEN faults ELSE faults + 1
              /\ moved' = IF ok THEN moved \cup Range(chunk) ELSE moved
              /\ loc' = IF ok /\ last THEN [loc EXCEPT !.moved = @ + Len(rep)]
                        ELSE IF ok THEN [loc EXCEPT !.off = @ + MoveBatchSize]
                        ELSE loc
              /\ run_summary' =
                    IF ok /\ last
                    THEN [run_summary EXCEPT !.moved_items = @ \o NamesOf(rep, id_to_name)]
                    ELSE run_summary
              /\ pc' = IF ~ok THEN "raised" ELSE IF last THEN "loop" ELSE "move"
              /\ gi' = IF ok /\ last THEN gi + 1 ELSE gi
    /\ UNCHANGED <<cfg, sim, board, subitems, archived, rt, web, existing, pending, cs>>
    /\ UNCHANGED planVars

\* archive_items: the next chunk; after the last one, lines 486-487.
ArchiveChunk ==
    /\ pc = "archive"
    /\ LET rep   == loc.represented_ids
           chunk == Chunk(rep, loc.off, ArchiveBatchSize)
           last  == loc.off + ArchiveBatchSize >= Len(rep)
       IN  \E ok \in Outcomes :
              /\ calls' = Append(calls,
                                 Call("archive", TRUE, ParentOf(groups[gi]), chunk, ok))
              /\ faults' = IF ok THEN faults ELSE faults + 1
              /\ archived' = IF ok THEN archived \cup Range(chunk) ELSE archived
              /\ loc' = IF ok /\ last THEN [loc EXCEPT !.archived = @ + Len(rep)]
                        ELSE IF ok THEN [loc EXCEPT !.off = @ + ArchiveBatchSize]
                        ELSE loc
              /\ run_summary' =
                    IF ok /\ last
                    THEN [run_summary EXCEPT !.archived_items = @ \o NamesOf(rep, id_to_name)]
                    ELSE run_summary
              /\ pc' = IF ~ok THEN "raised" ELSE IF last THEN "loop" ELSE "archive"
              /\ gi' = IF ok /\ last THEN gi + 1 ELSE gi
    /\ UNCHANGED <<cfg, sim, board, subitems, moved, rt, web, existing, pending, cs>>
    /\ UNCHANGED planVars

\* Lines 491-518: the counters are stored, the aliases looked up (a database
\* read that can raise) and the summary returned.
MainFinish ==
    /\ pc = "loop"
    /\ gi > Len(groups)
    /\ run_summary' = [run_summary EXCEPT !.processed_groups = Len(groups),
                                          !.created_subitems = loc.total_created,
                                          !.moved_originals = loc.moved,
                                          !.archived_originals = loc.archived]
    /\ \E alias_ok \in BOOLEAN : pc' = IF alias_ok THEN "done" ELSE "raised"
    /\ UNCHANGED <<cfg, sim, board, rt, web, gi, existing, pending, cs, loc>>
    /\ UNCHANGED planVars
    /\ UNCHANGED remoteVars

\* web.py lines 364-377: what _do_run_now stores in _last_run_summary when
\* main() has returned or raised.
DoRunDeliver ==
    /\ pc \in {"done", "raised"}
    /\ web.state = "idle"
    /\ web' = [ state |-> "ended",
                last_run_summary |-> IF pc = "done" THEN run_summary
                                     ELSE [error |-> TRUE] ]
    /\ UNCHANGED <<cfg, sim, board, pc, rt>>
    /\ UNCHANGED planVars
    /\ UNCHANGED loopVars
    /\ UNCHANGED remoteVars

-----------------------------------------------------------------------------
(* A whole run of main() *)

\* Boards whose items were created in id order.
ExecBoards ==
    UNION { { [k \in 1..n |-> [ id |-> ItemId(k), name |-> title[k],
                                created_at |-> CreatedAt("asc", k, n), group |-> "g1" ]]
              : title \in [1..n -> TitlePool] }
            : n \in 0..NumItems }

\* AFTER_ACTION and MOVE_GROUP_ID, MIN_COUNT = 1 (one-item candidates),
\* MAX_GROUPS = 1 and MAX_CHILDREN = 1.
ExecCfgs ==
    { [BaseCfg EXCEPT !.after_action = a[1], !.move_group_id = a[2]]
      : a \in {<<"none", "">>, <<"move", "grp">>, <<"move", "">>, <<"archive", "">>} }
    \cup { [BaseCfg EXCEPT !.after_action = "archive", !.min_count = 1],
           [BaseCfg EXCEPT !.max_groups = 1],
           [BaseCfg EXCEPT !.after_action = "archive", !.min_count = 1,
                           !.max_children = 1] }

\* The child records on the board before the run: none, or one named "a"
\* under every item.
InitialChildren == {<<>>, <<TitleA>>}

Init ==
    /\ board \in ExecBoards
    /\ cfg \in ExecCfgs
    /\ sim = {}
    /\ \E pre \in InitialChildren :
          subitems = [id \in {board[i].id : i \in 1..Len(board)} |-> pre]
    /\ moved = {} /\ archived = {} /\ faults = 0 /\ calls = <<>>
    /\ pc = "fetch"
    /\ items = <<>>
    /\ grouped_exact = <<>> /\ id_to_name = <<>> /\ leftovers = <<>> /\ groups = <<>>
    /\ gi = 0 /\ existing = {} /\ pending = <<>> /\ cs = NoCreate /\ loc = NoLocals
    /\ run_summary = EmptySummary
    /\ rt = NoRetry /\ web = NoWeb

Next ==
    \/ MainFetch
    \/ MainPlan
    \/ MainLoopSkip
    \/ MainLoopDiff
    \/ CreateBatch
    \/ CreateSingle
    \/ CreateReturn
    \/ MainRepresent
    \/ MoveChunk
    \/ ArchiveChunk
    \/ MainFinish
    \/ DoRunDeliver

Spec == Init /\ [][Next]_vars

(* create_subitems on its own: main() at line 462, for a semantic cluster of
   one parent and n children of different names, none yet under the parent *)

\* Bound: the children of the cluster.
MaxNames == 22

ChildName(i) == <<"n">> \o Digits(i)

ClusterBoard(n) ==
    [k \in 1..(n + 1) |->
        [ id |-> ItemId(k), name |-> IF k = 1 THEN <<"p">> ELSE ChildName(k - 1),
          created_at |-> k, group |-> "g1" ]]

InitCreate ==
    /\ \E n \in 0..MaxNames :
          /\ board = ClusterBoard(n)
          /\ groups = << [ subject_norm          |-> <<"p">>,
                           item_ids_oldest_first |-> [k \in 1..(n + 1) |-> ItemId(k)],
                           count                 |-> n + 1 ] >>
          /\ pending = [i \in 1..n |-> <<ItemId(i + 1), ChildName(i)>>]
    /\ items = board
    /\ cfg = [BaseCfg EXCEPT !.mode = "ai", !.has_key = TRUE]
    /\ sim = {}
    /\ grouped_exact = group_items(items)
    /\ id_to_name = IdToName(items)
    /\ leftovers = <<>>
    /\ subitems = [id \in {board[i].id : i \in 1..Len(board)} |-> <<>>]
    /\ moved = {} /\ archived = {} /\ faults = 0 /\ calls = <<>>
    /\ gi = 1
    /\ existing = {}
    /\ cs = [ state |-> "batch", names |-> CleanNames(NamesToCreate(pending)),
              off |-> 0, k |-> 0 ]
    /\ pc = "create"
    /\ loc = NoLocals
    /\ run_summary = EmptySummary
    /\ rt = NoRetry /\ web = NoWeb

NextCreate ==
    \/ CreateBatch
    \/ CreateSingle
    \/ CreateReturn

SpecCreate == InitCreate /\ [][NextCreate]_vars

-----------------------------------------------------------------------------
(* Properties of the executor *)

CallsOf(ops) == {i \in 1..Len(calls) : calls[i].op \in ops}

\* C2: whenever an original is relocated or archived, a child record
\* carrying its name exists under its group's parent at that moment.
C2_ActedOnlyWhenRepresented ==
    \A i \in CallsOf({"move", "archive"}) :
        \A cid \in Range(calls[i].args) : Strip(id_to_name[cid]) \in calls[i].had

\* C3: no create call carries a name for which a child record of exactly
\* that name exists under the parent when the call is issued.
C3_NoCreateOfExistingName ==
    \A i \in CallsOf({"create_batch", "create_single"}) :
        Range(calls[i].args) \cap calls[i].had = {}

RunEnded == pc \in {"done", "raised"}

\* The place in the plan of the candidate whose parent is `parent`.
GroupIndex(parent) == CHOOSE j \in 1..Len(groups) : ParentOf(groups[j]) = parent

\* C4: when the run has ended, every candidate of two or more members that
\* follows a candidate for which a read, create, relocate or archive call
\* failed has been processed (its parent's children were read).
C4_LaterGroupsProcessed ==
    RunEnded =>
        \A i \in CallsOf({"read", "create_batch", "create_single", "move", "archive"}) :
            ~calls[i].ok =>
                \A j \in (GroupIndex(calls[i].parent) + 1)..Len(groups) :
                    Len(groups[j].item_ids_oldest_first) >= 2 =>
                        \E c \in CallsOf({"read"}) : calls[c].parent = ParentOf(groups[j])

(* Properties of create_subitems *)

\* The calls create_subitems is to issue for `names`, given the outcomes in
\* `log`: per chunk of 20 one batch call and, if it failed, one single call
\* for every name of the chunk in order.
RECURSIVE CreateLogOk(_, _)
CreateLogOk(log, names) ==
    IF names = <<>> THEN log = <<>>
    ELSE LET n     == IF Len(names) < 20 THEN Len(names) ELSE 20
             chunk == SubSeq(names, 1, n)
             rest  == SubSeq(names, n + 1, Len(names))
         IN  /\ log /= <<>>
             /\ log[1].op = "create_batch"
             /\ log[1].args = chunk
             /\ IF log[1].ok THEN CreateLogOk(Tail(log), rest)
                ELSE /\ Len(log) >= 1 + n
                     /\ \A k \in 1..n : /\ log[1 + k].op = "create_single"
                                        /\ log[1 + k].args = <<chunk[k]>>
                     /\ CreateLogOk(SubSeq(log, n + 2, Len(log)), rest)

\* The names of the calls of `log` that succeeded, in order.
RECURSIVE CreatedBy(_)
CreatedBy(log) ==
    IF log = <<>> THEN <<>>
    ELSE (IF log[1].ok THEN log[1].args ELSE <<>>) \o CreatedBy(Tail(log))

\* C5: create_subitems never raises and always goes on; when it has returned,
\* its calls are one batch call per chunk and, after a failed batch, one
\* single call for every name of the chunk in order, whatever the outcomes of
\* the single calls, and the names created are those of the calls that
\* succeeded.
C5_FallbackCoversChunk ==
    /\ pc \in {"create", "post"}
    /\ pc = "create" => ENABLED NextCreate
    /\ pc = "post" =>
          /\ CreateLogOk(calls, CleanNames(NamesToCreate(pending)))
          /\ subitems[ParentOf(groups[1])] = CreatedBy(calls)

\* A batch failed, a name of its chunk failed singly, a later name of the
\* chunk was created singly, and a later chunk went through.
C5_Witness ==
    /\ pc = "post"
    /\ \E b, f, g, l \in 1..Len(calls) :
          /\ b < f /\ f < g /\ g < l
          /\ calls[b].op = "create_batch" /\ ~calls[b].ok
          /\ calls[f].op = "create_single" /\ ~calls[f].ok
          /\ calls[g].op = "create_single" /\ calls[g].ok
          /\ calls[l].op = "create_batch" /\ calls[l].ok
          /\ calls[g].args[1] \in Range(subitems[ParentOf(groups[1])])

-----------------------------------------------------------------------------
(* normalize_subject and group_items on pairs of related titles *)

\* Bound: the pieces a title is made of.
MaxParts == 3

\* The pieces: a reply prefix, a bracket tag, a qualifier, a word, white
\* space, a dash.
TitleParts ==
    { <<"R", "E", ":">>, <<"[", "t", "]">>, <<"(", "q", ")">>, <<"a">>, <<" ">>, <<"-">> }

RECURSIVE Flatten(_)
Flatten(parts) == IF parts = <<>> THEN <<>> ELSE Head(parts) \o Flatten(Tail(parts))

BaseTitles == UNION { {Flatten(ps) : ps \in [1..n -> TitleParts]} : n \in 0..MaxParts }

UpperOf(c) == IF \E u \in UpperChars : LowerMap[u] = c
              THEN CHOOSE u \in UpperChars : LowerMap[u] = c
              ELSE c

RECURSIVE DoubleSpaces(_)
DoubleSpaces(s) ==
    IF s = <<>> THEN <<>>
    ELSE (IF IsSpace(Head(s)) THEN <<" ", " ">> ELSE <<Head(s)>>) \o DoubleSpaces(Tail(s))

\* The ways the second title differs from the first.
Variations == {"prefix", "qualifier", "case", "spaces"}

Vary(kind, x) ==
    IF kind = "prefix" THEN <<"F", "w", ":", " ">> \o x
    ELSE IF kind = "qualifier" THEN x \o <<" ", "(", "q", ")">>
    ELSE IF kind = "case" THEN [i \in 1..Len(x) |-> UpperOf(x[i])]
    ELSE DoubleSpaces(x)

\* Two items, the second titled as a variation of the first, created in
\* either order.
PairBoards ==
    { [k \in 1..2 |-> [ id |-> ItemId(k), name |-> IF k = 1 THEN x ELSE Vary(v, x),
                        created_at |-> CreatedAt(p, k, 2), group |-> "g1" ]]
      : x \in BaseTitles, v \in Variations, p \in {"asc", "desc"} }

InitNorm ==
    /\ board \in PairBoards
    /\ items = board
    /\ cfg = BaseCfg
    /\ sim = {}
    /\ pc = "plan"
    /\ grouped_exact = <<>> /\ id_to_name = <<>> /\ leftovers = <<>> /\ groups = <<>>
    /\ gi = 0 /\ existing = {} /\ pending = <<>> /\ cs = NoCreate /\ loc = NoLocals
    /\ run_summary = EmptySummary
    /\ subitems = <<>> /\ moved = {} /\ archived = {} /\ faults = 0 /\ calls = <<>>
    /\ rt = NoRetry /\ web = NoWeb

NextNorm == MainPlan

SpecNorm == InitNorm /\ [][NextNorm]_vars

\* C11: normalize_subject is idempotent: the subject of every exact group,
\* itself the result of normalize_subject, is left as it is by
\* normalize_subject.
C11_NormalizeIdempotent ==
    pc = "loop" =>
        \A i \in 1..Len(grouped_exact) :
            normalize_subject(grouped_exact[i].subject_norm) = grouped_exact[i].subject_norm

\* C12: two items whose titles differ only by a leading reply/forward prefix,
\* a trailing qualifier, letter case or the length of white space runs are
\* one exact group of size 2, whichever was created first.
C12_VariantsGroupTogether ==
    pc = "loop" =>
        /\ Len(grouped_exact) = 1
        /\ grouped_exact[1].count = 2
        /\ GroupIds(grouped_exact[1]) = {ItemId(1), ItemId(2)}

-----------------------------------------------------------------------------
(* Properties of a whole run *)

Planned == pc \notin {"fetch", "plan"}

\* The normalized subjects of the fetched items, item by item, and how many
\* items have a subject.
SubjectOfItem == [i \in 1..Len(items) |-> normalize_subject(items[i].name)]
CountOf(norm, subj) == Cardinality({i \in DOMAIN norm : norm[i] = subj})
QualifyingSubjects(norm) == {subj \in Range(norm) : CountOf(norm, subj) >= cfg.min_count}

\* (count descending, subject_norm ascending)
Before(norm, s1, s2) ==
    \/ CountOf(norm, s1) > CountOf(norm, s2)
    \/ CountOf(norm, s1) = CountOf(norm, s2) /\ StrLess(s1, s2)

Mutations == {"create_batch", "create_single", "move", "archive"}

\* C13: in exact mode the candidates are the first MAX_GROUPS exact groups
\* with count >= MIN_COUNT in (count descending, subject ascending) order;
\* with MIN_COUNT = 2 and all subjects distinct there is no candidate and no
\* mutation is issued.
C13_ExactCandidates ==
    (Planned /\ cfg.mode = "exact") =>
        LET norm == SubjectOfItem
            qual == QualifyingSubjects(norm)
        IN  /\ Len(groups) = IF Cardinality(qual) < cfg.max_groups
                             THEN Cardinality(qual) ELSE cfg.max_groups
            /\ \A i \in 1..Len(groups) :
                  /\ groups[i].subject_norm \in qual
                  /\ groups[i].count = CountOf(norm, groups[i].subject_norm)
                  /\ GroupIds(groups[i]) =
                        {items[k].id : k \in {n \in DOMAIN norm :
                                                 norm[n] = groups[i].subject_norm}}
                  /\ \A j \in (i + 1)..Len(groups) :
                        Before(norm, groups[i].subject_norm, groups[j].subject_norm)
                  /\ \A subj \in qual \ {groups[k].subject_norm : k \in 1..Len(groups)} :
                        Before(norm, groups[i].subject_norm, subj)
            /\ (cfg.min_count = 2 /\ Cardinality(Range(norm)) = Len(items)) =>
                  groups = <<>> /\ CallsOf(Mutations) = {}

\* A finished run in which MAX_GROUPS = 1 cut off a second qualifying group.
C13_Witness ==
    /\ pc = "done"
    /\ cfg.mode = "exact"
    /\ Cardinality(QualifyingSubjects(SubjectOfItem)) = 2
    /\ Len(groups) = 1
    /\ CallsOf(Mutations) /= {}

-----------------------------------------------------------------------------
(* Properties of the candidate list *)

\* A candidate taken from the exact view; the others are semantic clusters.
IsExactCandidate(g) == g \in Range(grouped_exact) /\ g.count >= cfg.min_count

\* C14: at most MAX_GROUPS candidates in every mode; in hybrid mode every
\* exact group comes before every semantic cluster, and when a qualifying
\* exact group was cut off no semantic cluster is a candidate.
C14_BoundedExactFirst ==
    pc = "loop" =>
        /\ Len(groups) <= cfg.max_groups
        /\ cfg.mode = "hybrid" =>
              /\ \A i, j \in 1..Len(groups) :
                    (IsExactCandidate(groups[i]) /\ ~IsExactCandidate(groups[j])) => i < j
              /\ (\E i \in 1..Len(grouped_exact) :
                      /\ grouped_exact[i].count >= cfg.min_count
                      /\ grouped_exact[i] \notin Range(groups))
                 => \A j \in 1..Len(groups) : IsExactCandidate(groups[j])

\* Hybrid with MAX_GROUPS = 1: the exact group is kept, the cluster of the
\* two leftovers is cut off.
C14_Witness ==
    /\ pc = "loop"
    /\ cfg.mode = "hybrid"
    /\ cfg.max_groups = 1
    /\ Len(groups) = 1
    /\ IsExactCandidate(groups[1])
    /\ Len(AiCandidates(leftovers, cfg, sim)) = 1

-----------------------------------------------------------------------------
(* Properties of the post-action *)

\* A create call for `parent` carried `name`.
CreateIssued(parent, name) ==
    \E i \in CallsOf({"create_batch", "create_single"}) :
        calls[i].parent = parent /\ name \in Range(calls[i].args)

\* The child names read for `parent`.
NamesRead(parent) ==
    UNION { {Strip(nm) : nm \in calls[i].had}
            : i \in {c \in CallsOf({"read"}) : calls[c].parent = parent /\ calls[c].ok} }

\* C15: with AFTER_ACTION = "move" and no MOVE_GROUP_ID no relocate and no
\* archive call is issued and both counters are 0, while a run that ends
\* normally has issued a create call for every child name that was missing
\* under its parent.
C15_MoveWithoutGroup ==
    (cfg.after_action = "move" /\ cfg.move_group_id = "") =>
        /\ CallsOf({"move", "archive"}) = {}
        /\ moved = {} /\ archived = {}
        /\ loc.moved = 0 /\ loc.archived = 0
        /\ run_summary.moved_originals = 0 /\ run_summary.archived_originals = 0
        /\ run_summary.moved_items = <<>> /\ run_summary.archived_items = <<>>
        /\ pc = "done" =>
              \A i \in 1..Len(groups) :
                  Len(groups[i].item_ids_oldest_first) >= 2 =>
                      \A k \in 2..Len(groups[i].item_ids_oldest_first) :
                          LET parent == groups[i].item_ids_oldest_first[1]
                              name   == Strip(id_to_name[groups[i].item_ids_oldest_first[k]])
                          IN  name \in NamesRead(parent) \/ CreateIssued(parent, name)

\* Such a run ended after a create call that went through.
C15_Witness ==
    /\ pc = "done"
    /\ cfg.after_action = "move" /\ cfg.move_group_id = ""
    /\ \E i \in CallsOf({"create_batch"}) : calls[i].ok
    /\ run_summary.combined_items /= <<>>
    /\ run_summary.created_subitems > 0

-----------------------------------------------------------------------------
(* Properties of the semantic clusterer *)

\* A candidate that came from the clusterer.
IsSemanticCandidate(g) == cfg.mode = "ai" \/ (cfg.mode = "hybrid" /\ ~IsExactCandidate(g))

\* The items that open a cluster among the first n, oldest first: those
\* similar to no item that opened a cluster before them.
RECURSIVE Openings(_, _)
Openings(names, n) ==
    IF n = 0 THEN {}
    ELSE LET before == Openings(names, n - 1)
         IN  IF \E r \in before : Similar(sim, names[n], names[r]) THEN before
             ELSE before \cup {n}

\* The members of the cluster opened by r: r and every later item that opened
\* none and whose earliest similar opening before it is r.
MembersOf(names, open, r) ==
    {r} \cup {i \in (1..Len(names)) \ open :
                 r = MinOf({o \in open : o < i /\ Similar(sim, names[i], names[o])})}

\* The items the clusterer was handed, oldest first and cut to the newest
\* MAX_ITEMS_EMBED.
Embedded ==
    LastN(shape_for_ai(IF cfg.mode = "ai" THEN items ELSE leftovers), cfg.max_items_embed)

\* C16: greedy clustering puts each item, oldest first, into the
\* earliest-formed cluster whose first member is similar to it and otherwise
\* opens a cluster; so the semantic candidates are the clusters of 2 or more
\* members, each non-first member similar to its cluster's first member.
C16_GreedyClustering ==
    (pc = "loop" /\ cfg.has_key /\ cfg.mode \in {"ai", "hybrid"}) =>
        LET sh       == Embedded
            names    == [i \in 1..Len(sh) |-> sh[i].name]
            open     == Openings(names, Len(sh))
            ids(r)   == LET mem == MembersOf(names, open, r)
                        IN  [k \in 1..Cardinality(mem) |->
                                sh[CHOOSE i \in mem :
                                      Cardinality({j \in mem : j < i}) = k - 1].id]
            expected == {ids(r) : r \in {o \in open : Cardinality(MembersOf(names, open, o)) >= 2}}
            semantic == {groups[i].item_ids_oldest_first :
                            i \in {k \in 1..Len(groups) : IsSemanticCandidate(groups[k])}}
        IN  /\ semantic \subseteq expected
            /\ Len(groups) < cfg.max_groups => semantic = expected
            /\ \A i \in 1..Len(groups) :
                  IsSemanticCandidate(groups[i]) =>
                      /\ groups[i].count >= 2
                      /\ groups[i].count = Len(groups[i].item_ids_oldest_first)
                      /\ \A k \in 2..Len(groups[i].item_ids_oldest_first) :
                            Similar(sim,
                                    Strip(id_to_name[groups[i].item_ids_oldest_first[k]]),
                                    Strip(id_to_name[groups[i].item_ids_oldest_first[1]]))

\* Items "a", "c", "b" from oldest to newest, "b" similar to both others,
\* which are not similar to each other: "b" joins the cluster of "a".
C16_Witness ==
    /\ pc = "loop"
    /\ cfg.mode = "ai" /\ cfg.has_key
    /\ Len(items) = 3
    /\ [i \in 1..3 |-> items[i].name] = <<TitleA, TitleC, TitleB>>
    /\ [i \in 1..3 |-> items[i].created_at] = <<1, 2, 3>>
    /\ {TitleA, TitleB} \in sim /\ {TitleB, TitleC} \in sim
    /\ Len(groups) = 1
    /\ groups[1].item_ids_oldest_first = <<ItemId(1), ItemId(3)>>

-----------------------------------------------------------------------------
(* Properties of the call log *)

\* C17: every remote call of a run that fails was issued through the retry
\* wrapper, the item fetch and the existing-children read included.
C17_EveryCallRetried ==
    \A i \in 1..Len(calls) : ~calls[i].ok => calls[i].retried

\* The step of a group a call belongs to: diff, create, post-action.
StepOf(op) == IF op = "read" THEN 1 ELSE IF op \in {"create_batch", "create_single"} THEN 2 ELSE 3

GroupCalls == CallsOf({"read"} \cup Mutations)

\* C18: the calls of a run follow the plan group by group, and within a
\* group the one existing-children read comes first, then the create calls,
\* then the relocate or archive calls.
C18_StepsInOrder ==
    /\ \A i, j \in GroupCalls :
          i < j =>
              \/ GroupIndex(calls[i].parent) < GroupIndex(calls[j].parent)
              \/ /\ calls[i].parent = calls[j].parent
                 /\ StepOf(calls[i].op) <= StepOf(calls[j].op)
                 /\ calls[j].op /= "read"
    /\ \A j \in CallsOf(Mutations) :
          \E i \in CallsOf({"read"}) : i < j /\ calls[i].parent = calls[j].parent /\ calls[i].ok

\* A finished run of two groups, each read, created and archived.
C18_Witness ==
    /\ pc = "done"
    /\ Len(groups) = 2
    /\ \A g \in 1..2 :
          \E r, c, a \in GroupCalls :
              /\ calls[r].op = "read" /\ calls[c].op = "create_batch" /\ calls[a].op = "archive"
              /\ calls[r].parent = ParentOf(groups[g])
              /\ calls[c].parent = ParentOf(groups[g])
              /\ calls[a].parent = ParentOf(groups[g])

-----------------------------------------------------------------------------
(* Properties of the run summary *)

\* C19: the summary delivered for a run, also one that failed part-way,
\* holds the parent/children pairs and the moved and archived names of the
\* side effects the run performed.
C19_SummaryKeepsSideEffects ==
    (web.state = "ended" /\ run_summary.combined_items /= <<>>) =>
        /\ "combined_items" \in DOMAIN web.last_run_summary
        /\ web.last_run_summary.combined_items = run_summary.combined_items
        /\ web.last_run_summary.moved_items = run_summary.moved_items
        /\ web.last_run_summary.archived_items = run_summary.archived_items

\* The ids passed to relocate and archive calls that went through, call by call.
RECURSIVE ActedIds(_)
ActedIds(log) ==
    IF log = <<>> THEN <<>>
    ELSE (IF log[1].op \in {"move", "archive"} /\ log[1].ok THEN log[1].args ELSE <<>>)
            \o ActedIds(Tail(log))

\* C20: no original is passed twice to relocate or archive calls, and at the
\* end of a run moved_originals and archived_originals are the numbers of
\* distinct originals relocated and archived.
C20_ActedOnceAndCounted ==
    /\ \A i \in CallsOf({"move", "archive"}) : NoRepeat(calls[i].args)
    /\ NoRepeat(ActedIds(calls))
    /\ pc = "done" =>
          /\ run_summary.moved_originals = Cardinality(moved)
          /\ run_summary.archived_originals = Cardinality(archived)

-----------------------------------------------------------------------------
(* Properties of the counters *)

\* The child records the create calls of `log` have made.
RECURSIVE CreatedCount(_)
CreatedCount(log) ==
    IF log = <<>> THEN 0
    ELSE (IF log[1].op \in {"create_batch", "create_single"} /\ log[1].ok
          THEN Len(log[1].args) ELSE 0) + CreatedCount(Tail(log))

\* C21: at the end of a run created_subitems is the number of child records
\* the run created on the board, also when create calls failed.
C21_CreatedCounterExact ==
    pc = "done" => run_summary.created_subitems = CreatedCount(calls)

-----------------------------------------------------------------------------
(* Properties of parents and children *)

\* The parents of the candidates the loop has taken up.
ProcessedParents == {calls[i].parent : i \in CallsOf({"read"})}

\* C25: no parent of a processed candidate is relocated or archived in the
\* run: every id passed to a relocate or archive call is a member other
\* than the first of the candidate the call is made for.
C25_ParentStays ==
    /\ \A i \in CallsOf({"move", "archive"}) :
          /\ Range(calls[i].args) \cap ProcessedParents = {}
          /\ Range(calls[i].args) \subseteq
                Range(Tail(groups[GroupIndex(calls[i].parent)].item_ids_oldest_first))
    /\ (moved \cup archived) \cap ProcessedParents = {}

\* A finished run that relocated the children of a parent.
C25_Witness ==
    /\ pc = "done"
    /\ \E i \in CallsOf({"move"}) :
          /\ calls[i].ok
          /\ Range(calls[i].args) \subseteq moved
          /\ calls[i].parent \notin moved
          /\ Len(calls[i].args) >= 2

\* The members of the candidate of `parent` within the cap: the first
\* MAX_CHILDREN after the parent.
Considered(parent) ==
    LET ids == groups[GroupIndex(parent)].item_ids_oldest_first
    IN  {ids[k] : k \in 2..MinOf({Len(ids), cfg.max_children + 1})}

\* The members beyond the cap.
Beyond(parent) ==
    GroupIds(groups[GroupIndex(parent)]) \ (Considered(parent) \cup {parent})

\* C26: the calls made for a candidate concern only its MAX_CHILDREN oldest
\* members after the parent: relocate and archive calls carry ids of these
\* and create calls names of these; and every call is made for a candidate
\* of two or more members.
C26_ChildrenCapped ==
    \A i \in CallsOf({"read", "create_batch", "create_single", "move", "archive"}) :
        LET p == calls[i].parent
        IN  /\ Len(groups[GroupIndex(p)].item_ids_oldest_first) >= 2
            /\ Cardinality(Considered(p)) <= cfg.max_children
            /\ \A c \in Considered(p) : \A d \in Beyond(p) : OlderThan(c, d)
            /\ calls[i].op \in {"move", "archive"} =>
                  Range(calls[i].args) \subseteq Considered(p)
            /\ calls[i].op \in {"create_batch", "create_single"} =>
                  Range(calls[i].args) \subseteq
                      {Strip(id_to_name[c]) : c \in Considered(p)}

\* A finished run with MAX_CHILDREN = 1 that archived the one child within
\* the cap of a candidate of three, whose third member has a name of its
\* own, and passed over a candidate of one member.
C26_Witness ==
    /\ pc = "done"
    /\ cfg.max_children = 1
    /\ \E j \in 1..Len(groups) : Len(groups[j].item_ids_oldest_first) = 1
    /\ \E i \in CallsOf({"archive"}) :
          /\ calls[i].ok
          /\ Len(calls[i].args) = 1
          /\ \E d \in Beyond(calls[i].parent) :
                Strip(id_to_name[d]) /= Strip(id_to_name[calls[i].args[1]])

-----------------------------------------------------------------------------
(* Two runs in a row on a remote that never fails, AFTER_ACTION = none *)

\* A title one character over the child-name limit.
LongTitle == [i \in 1..(NameLimit + 1) |-> "x"]

RerunTitles == {TitleA, LongTitle}

RerunBoards ==
    UNION { { [k \in 1..n |-> [ id |-> ItemId(k), name |-> title[k],
                                created_at |-> CreatedAt("asc", k, n), group |-> "g1" ]]
              : title \in [1..n -> RerunTitles] }
            : n \in 0..NumItems }

InitRerun ==
    /\ board \in RerunBoards
    /\ cfg = BaseCfg
    /\ sim = {}
    /\ \E pre \in InitialChildren :
          subitems = [id \in {board[i].id : i \in 1..Len(board)} |-> pre]
    /\ moved = {} /\ archived = {} /\ calls = <<>>
    /\ faults = MaxFaults
    /\ pc = "fetch"
    /\ items = <<>>
    /\ grouped_exact = <<>> /\ id_to_name = <<>> /\ leftovers = <<>> /\ groups = <<>>
    /\ gi = 0 /\ existing = {} /\ pending = <<>> /\ cs = NoCreate /\ loc = NoLocals
    /\ run_summary = EmptySummary
    /\ rt = NoRetry /\ web = NoWeb

\* web.py, run_now after the run has ended: main() is started once more, on
\* the board as the first run left it.
RunAgain ==
    /\ pc = "done"
    /\ web.state = "ended"
    /\ web' = [state |-> "rerun", first_calls |-> Len(calls)]
    /\ pc' = "fetch"
    /\ items' = <<>>
    /\ grouped_exact' = <<>> /\ id_to_name' = <<>> /\ leftovers' = <<>> /\ groups' = <<>>
    /\ gi' = 0 /\ existing' = {} /\ pending' = <<>> /\ cs' = NoCreate /\ loc' = NoLocals
    /\ run_summary' = EmptySummary
    /\ UNCHANGED <<cfg, sim, board, rt>>
    /\ UNCHANGED remoteVars

NextRerun ==
    \/ MainFetch
    \/ MainPlan
    \/ MainLoopDiff
    \/ CreateBatch
    \/ CreateReturn
    \/ MainRepresent
    \/ MainFinish
    \/ DoRunDeliver
    \/ RunAgain

SpecRerun == InitRerun /\ [][NextRerun]_vars

\* C22: with AFTER_ACTION = none, after a run in which every create call
\* succeeded, the next run with the same configuration on the unchanged
\* board issues no create call.
C22_SecondRunCreatesNothing ==
    (web.state = "rerun" /\ \A i \in 1..web.first_calls : calls[i].ok) =>
        \A i \in CallsOf({"create_batch", "create_single"}) : i <= web.first_calls

-----------------------------------------------------------------------------
(* fetch_all, page by page *)

\* "limit": 100 of the query.
PageLimit == 100

FetchGroups == {"g1", "g2"}

\* Boards whose items lie in two groups.
FetchBoards ==
    UNION { { [k \in 1..n |-> [ id |-> ItemId(k), name |-> TitleA,
                                created_at |-> k, group |-> grp[k] ]]
              : grp \in [1..n -> FetchGroups] }
            : n \in 0..NumItems }

\* GROUP_FILTER: unset, one group, a group no item is in.
FetchFilters == {{}, {"g1"}, {"g3"}}

\* cursor = None; a cursor the server hands out is a one-element token.
NoCursor == <<>>

\* Line 112; `pages` keeps the pages the server has answered with.
FetchStart == [items |-> <<>>, cursor |-> NoCursor, pages |-> <<>>]

\* Lines 118-119.
FilterBatch(batch, group_filter) ==
    IF group_filter = {} THEN batch
    ELSE SelectIdx(batch, {i \in 1..Len(batch) : batch[i].group \in group_filter})

\* Mutant: the emptiness test comes after the filter.
BatchEndsFiltered(batch, kept) == kept = <<>>

\* Line 117: `if not batch: break`, on the page as the server sent it.
BatchEnds(batch, kept) == batch = <<>>

\* The opaque cursor holds the number of items the server has handed out.
ServerPos(cursor) == IF cursor = NoCursor THEN 0 ELSE cursor[1]

\* One pass of the while loop: the query, and what lines 115-122 do with the
\* page.  The server answers with any number of the next items, up to the
\* limit, and with or without a cursor.
FetchPage ==
    /\ pc = "fetch_all"
    /\ \E ok \in Outcomes :
          /\ calls' = Append(calls, Call("fetch", FALSE, <<>>, <<>>, ok))
          /\ faults' = IF ok THEN faults ELSE faults + 1
          /\ IF ~ok
             THEN /\ pc' = "raised"
                  /\ UNCHANGED <<loc, items>>
             ELSE LET pos  == ServerPos(loc.cursor)
                      left == Len(board) - pos
                  IN  \E n \in 0..(IF left < PageLimit THEN left ELSE PageLimit),
                         more \in BOOLEAN :
                         LET batch == SubSeq(board, pos + 1, pos + n)
                             cur   == IF more THEN <<pos + n>> ELSE NoCursor
                             kept  == FilterBatch(batch, cfg.group_filter)
                             ends  == BatchEnds(batch, kept)
                             got   == IF ends THEN loc.items ELSE loc.items \o kept
                             next  == IF ends THEN loc.cursor ELSE cur
                             stop  == ends \/ next = NoCursor
                         IN  /\ loc' = [ items  |-> got, cursor |-> next,
                                         pages  |-> Append(loc.pages,
                                                     [items |-> batch, cursor |-> cur]) ]
                             /\ pc' = IF stop THEN "plan" ELSE pc
                             /\ items' = IF stop THEN got ELSE items
    /\ UNCHANGED <<cfg, sim, board, subitems, moved, archived, rt, web>>
    /\ UNCHANGED <<grouped_exact, id_to_name, leftovers, groups>>
    /\ UNCHANGED <<gi, existing, pending, cs, run_summary>>

InitFetch ==
    /\ board \in FetchBoards
    /\ \E f \in FetchFilters : cfg = [BaseCfg EXCEPT !.group_filter = f]
    /\ sim = {}
    /\ subitems = [id \in {board[i].id : i \in 1..Len(board)} |-> <<>>]
    /\ moved = {} /\ archived = {} /\ calls = <<>>
    /\ faults = 0
    /\ pc = "fetch_all"
    /\ items = <<>>
    /\ grouped_exact = <<>> /\ id_to_name = <<>> /\ leftovers = <<>> /\ groups = <<>>
    /\ gi = 0 /\ existing = {} /\ pending = <<>> /\ cs = NoCreate
    /\ loc = FetchStart
    /\ run_summary = EmptySummary
    /\ rt = NoRetry /\ web = NoWeb

NextFetch == FetchPage

\* The loop is straight-line code of one thread: it keeps taking steps.
SpecFetch == InitFetch /\ [][NextFetch]_vars /\ WF_vars(NextFetch)

\* A page after which the loop leaves: no items, or no cursor.
LastPage(p) == p.items = <<>> \/ p.cursor = NoCursor

\* The items of `ps` whose group the filter lets through, in page order.
Wanted(ps) ==
    LET all == Flatten([i \in 1..Len(ps) |-> ps[i].items])
    IN  SelectIdx(all, {i \in 1..Len(all) :
                           cfg.group_filter = {} \/ all[i].group \in cfg.group_filter})

FetchReturned == pc = "plan"

FetchShape ==
    LET ps == loc.pages
    IN  /\ \A i \in 1..(Len(ps) - 1) : ~LastPage(ps[i])
        /\ (pc = "fetch_all" /\ ps /= <<>>) => ~LastPage(ps[Len(ps)])
        /\ FetchReturned => (ps /= <<>> /\ LastPage(ps[Len(ps)]) /\ items = Wanted(ps))
        /\ loc.items = Wanted(ps)

\* C23: fetch_all asks for the next page exactly as long as the last page
\* had items and a cursor, also when the filter removed every item of it;
\* it returns the items of the pages it got that pass the group filter, in
\* page order; and it comes to an end, since the server runs out of items.
C23_FetchAllPages == []FetchShape /\ <>(pc \in {"plan", "raised"})

\* fetch_all has returned items of a later page after a page of which the
\* filter kept nothing.
C23_Witness ==
    /\ FetchReturned
    /\ items /= <<>>
    /\ \E i \in 1..Len(loc.pages) :
          /\ loc.pages[i].items /= <<>>
          /\ FilterBatch(loc.pages[i].items, cfg.group_filter) = <<>>
          /\ \E j \in (i + 1)..Len(loc.pages) :
                FilterBatch(loc.pages[j].items, cfg.group_filter) /= <<>>

-----------------------------------------------------------------------------
(* The loop of main() on one candidate of many members: the creates, then
   the relocation or the archiving of the originals, chunk by chunk *)

ChunkCfgs ==
    { [BaseCfg EXCEPT !.after_action = "move", !.move_group_id = "grp"],
      [BaseCfg EXCEPT !.after_action = "archive"] }

InitChunk ==
    /\ \E n \in 0..MaxNames :
          /\ board = ClusterBoard(n)
          /\ groups = << [ subject_norm          |-> <<"p">>,
                           item_ids_oldest_first |-> [k \in 1..(n + 1) |-> ItemId(k)],
                           count                 |-> n + 1 ] >>
    /\ items = board
    /\ cfg \in ChunkCfgs
    /\ sim = {}
    /\ grouped_exact = <<>>
    /\ id_to_name = IdToName(items)
    /\ leftovers = <<>>
    /\ subitems = [id \in {board[i].id : i \in 1..Len(board)} |-> <<>>]
    /\ moved = {} /\ archived = {} /\ faults = 0 /\ calls = <<>>
    /\ gi = 1
    /\ existing = {} /\ pending = <<>> /\ cs = NoCreate
    /\ pc = "loop"
    /\ loc = NoLocals
    /\ run_summary = EmptySummary
    /\ rt = NoRetry /\ web = NoWeb

NextChunk ==
    \/ MainLoopSkip
    \/ MainLoopDiff
    \/ CreateBatch
    \/ CreateSingle
    \/ CreateReturn
    \/ MainRepresent
    \/ MoveChunk
    \/ ArchiveChunk
    \/ MainFinish

SpecChunk == InitChunk /\ [][NextChunk]_vars

\* The calls of kind `op`, in the order they were issued.
BatchCalls(op) == SelectIdx(calls, CallsOf({op}))

\* What these calls carried, one after the other.
SentBy(op) == LET B == BatchCalls(op) IN Flatten([i \in 1..Len(B) |-> B[i].args])

IsPrefix(a, b) == Len(a) <= Len(b) /\ a = SubSeq(b, 1, Len(a))

\* The calls of kind `op` carry between 1 and `size` elements each and,
\* one after the other, a prefix of `input`: the whole of it once the
\* invocation is `over`.
ChunkedBy(op, size, input, over) ==
    /\ \A i \in CallsOf({op}) : Len(calls[i].args) >= 1 /\ Len(calls[i].args) <= size
    /\ IsPrefix(SentBy(op), input)
    /\ over => SentBy(op) = input

\* The relocation or archiving has come to its end without raising.
PostOver ==
    /\ pc \notin {"move", "archive"}
    /\ ~(calls /= <<>> /\ calls[Len(calls)].op \in {"move", "archive"}
                       /\ ~calls[Len(calls)].ok)

\* The list move_items, or archive_items, is called with.
PostInput(act) ==
    IF PostAction(cfg, loc.represented_ids) = act THEN loc.represented_ids ELSE <<>>

\* C27: a batch create call carries at most 20 names, a relocate call at
\* most 5 ids, an archive call at most 10 ids, none of them nothing; the
\* chunks of an invocation, in call order, make up its input list.
C27_ChunksCoverInput ==
    /\ ChunkedBy("create_batch", 20, CleanNames(NamesToCreate(pending)), pc /= "create")
    /\ ChunkedBy("move", 5, PostInput("move"), PostOver)
    /\ ChunkedBy("archive", 10, PostInput("archive"), PostOver)

\* A finished run that created the children of one parent in two batch
\* calls and relocated the originals in five calls or more, the last one
\* shorter than the others.
C27_Witness ==
    /\ pc = "done"
    /\ Len(BatchCalls("create_batch")) = 2
    /\ Len(BatchCalls("move")) >= 5
    /\ Len(calls[Len(calls)].args) < 5
    /\ Len(loc.represented_ids) > 20
    /\ moved = Range(loc.represented_ids)

-----------------------------------------------------------------------------
(* A whole run of main() in ai and hybrid mode with OPENAI_API_KEY unset *)

\* What the embeddings would tell if they were asked: every pair of
\* SimPairs is similar.
FullSim == {{t} : t \in PlanTitles} \cup SimPairs

NoKeyCfgs ==
    { [BaseCfg EXCEPT !.mode = m, !.after_action = "archive"] : m \in {"ai", "hybrid"} }

\* Boards with up to three subjects, so that a candidate of exact mode can
\* leave two items of different subjects over.
NoKeyBoards ==
    UNION { { [k \in 1..n |-> [ id |-> ItemId(k), name |-> title[k],
                                created_at |-> CreatedAt("asc", k, n), group |-> "g1" ]]
              : title \in [1..n -> PlanTitles] }
            : n \in 0..NumItems }

InitNoKey ==
    /\ board \in NoKeyBoards
    /\ cfg \in NoKeyCfgs
    /\ sim = FullSim
    /\ \E pre \in InitialChildren :
          subitems = [id \in {board[i].id : i \in 1..Len(board)} |-> pre]
    /\ moved = {} /\ archived = {} /\ faults = 0 /\ calls = <<>>
    /\ pc = "fetch"
    /\ items = <<>>
    /\ grouped_exact = <<>> /\ id_to_name = <<>> /\ leftovers = <<>> /\ groups = <<>>
    /\ gi = 0 /\ existing = {} /\ pending = <<>> /\ cs = NoCreate /\ loc = NoLocals
    /\ run_summary = EmptySummary
    /\ rt = NoRetry /\ web = NoWeb

NextNoKey ==
    \/ MainFetch
    \/ MainPlan
    \/ MainLoopDiff
    \/ CreateBatch
    \/ CreateSingle
    \/ CreateReturn
    \/ MainRepresent
    \/ ArchiveChunk
    \/ MainFinish

SpecNoKey == InitNoKey /\ [][NextNoKey]_vars

\* The candidates of exact mode for the same items and settings.
ExactPlan(rel) ==
    PlanGroups(grouped_exact, items, <<>>, [cfg EXCEPT !.mode = "exact"], rel)

\* C28: with no embeddings credential the candidates do not depend on what
\* the embeddings would tell; ai mode has no candidate and the run reads,
\* creates, relocates and archives nothing; hybrid mode has the candidates
\* of exact mode.
C28_NoCredential ==
    (~cfg.has_key /\ pc \notin {"fetch", "plan"}) =>
        /\ \A rel \in SimRelations :
              groups = PlanGroups(grouped_exact, items, leftovers, cfg, rel)
        /\ cfg.mode = "ai" =>
              /\ groups = <<>>
              /\ CallsOf({"read", "create_batch", "create_single", "move", "archive"}) = {}
              /\ moved = {} /\ archived = {}
        /\ cfg.mode = "hybrid" => groups = ExactPlan(sim)

\* A finished run in hybrid mode that archived the children of an exact
\* candidate, with leftovers the clusterer would have grouped had it been
\* given a credential.
C28_Witness ==
    /\ pc = "done"
    /\ cfg.mode = "hybrid" /\ ~cfg.has_key
    /\ archived /= {}
    /\ Clustered(leftovers, cfg.max_items_embed, sim) /= <<>>

====
